---- MODULE Spec2Model ----
(***************************************************************************)
(* Model of original_program.py: a script that builds a fixed graph, asks  *)
(* an external sampler for a maximum independent set, prints it, colours   *)
(* the nodes and wires a Bokeh plot.                                       *)
(*                                                                         *)
(* A graph is a record [nodes, edges]; an undirected edge (u, v) is the    *)
(* set {u, v}, so (u, v) and (v, u) are the same edge and a self-loop is a *)
(* singleton.  The solver's answer is a list of distinct nodes and is      *)
(* modelled as the set of its elements.                                    *)
(***************************************************************************)
EXTENDS Integers, FiniteSets, Sequences, TLC

VARIABLES pc, stage, isMain, defined, G, sampler, S, solverCalls, num_reads,
          stdout, subset_1, notS, subset_0, color, output, err

vars == <<pc, stage, isMain, defined, G, sampler, S, solverCalls, num_reads,
          stdout, subset_1, notS, subset_0, color, output, err>>

(* ------------------------------ bounds -------------------------------- *)

\* Nodes the external solver may answer with beyond the 7 nodes of the graph.
ExtraNodes == 1

\* Largest node of the graphs handed to solve_problem and to the partition
\* code in the specification over arbitrary graphs.
MaxAnyNode == 3

(* --------------------------- pure functions --------------------------- *)

\* The edge list of create_graph.
EdgeList ==
    << <<1, 2>>, <<1, 3>>, <<2, 3>>, <<3, 4>>, <<3, 5>>,
       <<4, 5>>, <<4, 6>>, <<5, 6>>, <<6, 7>> >>

\* nx.Graph(): no nodes, no edges.
EmptyGraph == [nodes |-> {}, edges |-> {}]

\* add_edge that adds only the first endpoint to the node set.
add_edgeFirstEndpoint(g, e) ==
    [nodes |-> g.nodes \cup {e[1]}, edges |-> g.edges \cup {{e[1], e[2]}}]

\* Graph.add_edge: adds both endpoints and the undirected edge.
add_edge(g, e) ==
    [nodes |-> g.nodes \cup {e[1], e[2]}, edges |-> g.edges \cup {{e[1], e[2]}}]

\* Graph.add_edges_from: add_edge over the list, in order.
RECURSIVE add_edges_from(_, _)
add_edges_from(g, ebunch) ==
    IF ebunch = <<>> THEN g
    ELSE add_edges_from(add_edge(g, Head(ebunch)), Tail(ebunch))

create_graph == add_edges_from(EmptyGraph, EdgeList)

\* subgraph that keeps every node of nbunch, in the graph or not.
subgraphUnfiltered(g, nbunch) ==
    [nodes |-> nbunch, edges |-> {e \in g.edges : e \subseteq nbunch}]

\* Graph.subgraph(nbunch): the subgraph induced on the nodes of nbunch that
\* are in the graph; nodes of nbunch that are not in the graph are skipped.
subgraph(g, nbunch) ==
    [nodes |-> g.nodes \cap nbunch,
     edges |-> {e \in g.edges : e \subseteq nbunch}]

\* len that counts one element too many.
lenOffByOne(s) == Cardinality(s) + 1

\* len(S) of a list of distinct nodes.
len(s) == Cardinality(s)

\* The colours the other way round.
NodeColorSwapped(node, s) == IF node \in s THEN "blue" ELSE "red"

\* 'red' if node in S else 'blue'
NodeColor(node, s) == IF node \in s THEN "red" ELSE "blue"

\* for node in G.nodes(): G.nodes[node]['color'] = ...
ColorNodes(g, s) == [node \in g.nodes |-> NodeColor(node, s)]

\* num_reads=10 in solve_problem.
NumReads == 10

\* Names bound by the import statements.
ImportedNames ==
    {"nx", "dnx", "DWaveSampler", "EmbeddingComposite", "output_file", "show",
     "Circle", "HoverTool", "MultiLine", "Plot", "EdgesAndLinkedNodes",
     "NodesAndLinkedEdges", "Spectral4", "from_networkx", "ColumnDataSource"}

\* Names bound by module-level assignments and defs that always run.
ModuleNames == {"data", "source", "set_sampler", "create_graph", "solve_problem"}

\* Names the plot construction (Plot(...)) reads.
PlotNames == {"Plot", "Range1d"}

\* Names the rest of the visualization wiring reads.
WiringNames ==
    {"from_networkx", "nx", "G", "HoverTool", "Circle", "Spectral4",
     "MultiLine", "NodesAndLinkedEdges", "EdgesAndLinkedNodes", "output_file"}

\* Name lookup at module level: a name is bound when it was imported,
\* assigned at module level, or assigned by the __main__ block so far.
Bound(name) == name \in ImportedNames \cup ModuleNames \cup defined

\* The nodes the external solver may answer with, for graph g.
SolverUniverse(g) ==
    g.nodes \cup
    (IF g.nodes = {} THEN 1..ExtraNodes
     ELSE {n + k : n \in {CHOOSE m \in g.nodes : \A x \in g.nodes : x <= m},
                   k \in 1..ExtraNodes})

\* Unordered pairs (and self-loops) over a node set.
Pairs(ns) == {{a, b} : a \in ns, b \in ns}

\* Graphs over the nodes 1..MaxAnyNode.
AnyGraphs ==
    UNION {{[nodes |-> ns, edges |-> es] : es \in SUBSET Pairs(ns)} :
           ns \in SUBSET (1..MaxAnyNode)}

NoGraph == [nodes |-> {}, edges |-> {}]

(* ------------------------------ states -------------------------------- *)

\* State of the interpreter before the first statement after the defs.
InitCommon ==
    /\ sampler = "None"
    /\ S = {}
    /\ solverCalls = 0
    /\ num_reads = 0
    /\ stdout = <<>>
    /\ subset_1 = NoGraph
    /\ notS = {}
    /\ subset_0 = NoGraph
    /\ color = [node \in {} |-> "blue"]
    /\ output = "None"
    /\ err = "None"

\* The script, run as a program or imported as a module.
Init ==
    /\ InitCommon
    /\ pc = "main"
    /\ stage = "Start"
    /\ isMain \in BOOLEAN
    /\ G = NoGraph
    /\ defined = {}

(* ------------------------------ actions ------------------------------- *)

\* if __name__ == "__main__": G = create_graph()
MainCreateGraph ==
    /\ pc = "main"
    /\ isMain
    /\ G' = create_graph
    /\ defined' = defined \cup {"G"}
    /\ stage' = "Built"
    /\ pc' = "set_sampler"
    /\ UNCHANGED <<isMain, sampler, S, solverCalls, num_reads, stdout,
                   subset_1, notS, subset_0, color, output, err>>

\* __name__ # "__main__": the block is skipped and the module-level code
\* after it runs next.
SkipMain ==
    /\ pc = "main"
    /\ ~isMain
    /\ pc' = "partition"
    /\ UNCHANGED <<stage, isMain, defined, G, sampler, S, solverCalls,
                   num_reads, stdout, subset_1, notS, subset_0, color,
                   output, err>>

\* sampler = set_sampler(): EmbeddingComposite(DWaveSampler()) connects to
\* the solver service; it returns the sampler or raises.
MainSetSampler ==
    /\ pc = "set_sampler"
    /\ \/ /\ sampler' = "EmbeddingComposite(DWaveSampler())"
          /\ defined' = defined \cup {"sampler"}
          /\ pc' = "solve_problem"
          /\ UNCHANGED <<stage, err>>
       \/ /\ err' = "SolverUnavailable"
          /\ stage' = "Failed"
          /\ pc' = "exit"
          /\ UNCHANGED <<sampler, defined>>
    /\ UNCHANGED <<isMain, G, S, solverCalls, num_reads, stdout, subset_1,
                   notS, subset_0, color, output>>

\* The call raises and the failure is swallowed: the run goes on with an
\* empty answer.
SolveRaisesFallback ==
    /\ err' = "SolverUnavailable"
    /\ stage' = "Failed"
    /\ S' = {}
    /\ defined' = defined \cup {"S"}
    /\ pc' = "print"

\* The call raises and is tried again.
SolveRaisesRetry ==
    /\ pc' = "solve_problem"
    /\ UNCHANGED <<err, stage, S, defined>>

\* The call inside solve_problem raises: the exception leaves
\* solve_problem and the __main__ block, and the interpreter exits.
SolveRaises ==
    /\ err' = "SolverUnavailable"
    /\ stage' = "Failed"
    /\ pc' = "exit"
    /\ UNCHANGED <<S, defined>>

\* The call inside solve_problem returns a list of nodes, bound to S.
SolveReturns ==
    /\ \E answer \in SUBSET SolverUniverse(G) : S' = answer
    /\ defined' = defined \cup {"S"}
    /\ stage' = "Solved"
    /\ pc' = "print"
    /\ UNCHANGED err

\* solve_problem with a check of its own: an empty graph raises
\* InvalidGraph before the solver is called.
MainSolveChecked ==
    /\ pc = "solve_problem"
    /\ IF G.nodes = {}
       THEN /\ err' = "InvalidGraph"
            /\ stage' = "Failed"
            /\ pc' = "exit"
            /\ UNCHANGED <<S, defined, solverCalls, num_reads>>
       ELSE /\ solverCalls' = solverCalls + 1
            /\ num_reads' = NumReads
            /\ (SolveReturns \/ SolveRaises)
    /\ UNCHANGED <<isMain, G, sampler, stdout, subset_1, notS, subset_0,
                   color, output>>

\* S = solve_problem(G, sampler): one call of
\* dnx.maximum_independent_set(G, sampler=sampler, num_reads=10), which
\* returns a list of nodes or raises.
MainSolve ==
    /\ pc = "solve_problem"
    /\ solverCalls' = solverCalls + 1
    /\ num_reads' = NumReads
    /\ (SolveReturns \/ SolveRaises)
    /\ UNCHANGED <<isMain, G, sampler, stdout, subset_1, notS, subset_0,
                   color, output>>

\* print('Maximum independent set size found is', len(S)); print(S)
MainReport ==
    /\ pc = "print"
    /\ stdout' = stdout \o << <<"Maximum independent set size found is", len(S)>>,
                             <<S>> >>
    /\ pc' = "partition"
    /\ UNCHANGED <<stage, isMain, defined, G, sampler, S, solverCalls,
                   num_reads, subset_1, notS, subset_0, color, output, err>>

\* The partition code, dropping the unselected nodes from G itself.
PartitionPrunesGraph ==
    /\ pc = "partition"
    /\ IF Bound("G") /\ Bound("S")
       THEN /\ subset_1' = subgraph(G, S)
            /\ notS' = G.nodes \ S
            /\ subset_0' = subgraph(G, G.nodes \ S)
            /\ G' = subgraph(G, S)
            /\ color' = ColorNodes(G', S)
            /\ defined' = defined \cup {"subset_1", "notS", "subset_0"}
            /\ stage' = "Partitioned"
            /\ pc' = "render"
            /\ UNCHANGED err
       ELSE /\ err' = "NameError"
            /\ stage' = "Failed"
            /\ pc' = "exit"
            /\ UNCHANGED <<subset_1, notS, subset_0, color, defined, G>>
    /\ UNCHANGED <<isMain, sampler, S, solverCalls, num_reads, stdout,
                   output>>

\* subset_1, notS, subset_0 and the colour loop.
Partition ==
    /\ pc = "partition"
    /\ IF Bound("G") /\ Bound("S")
       THEN /\ subset_1' = subgraph(G, S)
            /\ notS' = G.nodes \ S
            /\ subset_0' = subgraph(G, G.nodes \ S)
            /\ color' = ColorNodes(G, S)
            /\ defined' = defined \cup {"subset_1", "notS", "subset_0"}
            /\ stage' = "Partitioned"
            /\ pc' = "render"
            /\ UNCHANGED err
       ELSE /\ err' = "NameError"
            /\ stage' = "Failed"
            /\ pc' = "exit"
            /\ UNCHANGED <<subset_1, notS, subset_0, color, defined>>
    /\ UNCHANGED <<isMain, G, sampler, S, solverCalls, num_reads, stdout,
                   output>>

\* Plot(...), from_networkx, hover tool, glyphs, policies, output_file.
Render ==
    /\ pc = "render"
    /\ IF \A name \in PlotNames \cup WiringNames : Bound(name)
       THEN /\ output' = "interactive_graphs.html"
            /\ defined' = defined \cup {"plot", "graph_renderer",
                                        "node_indices", "hover_tool"}
            /\ stage' = "Rendered"
            /\ pc' = "exit"
            /\ UNCHANGED err
       ELSE /\ err' = "NameError"
            /\ stage' = "Failed"
            /\ pc' = "exit"
            /\ defined' =
                 IF \A name \in PlotNames : Bound(name)
                 THEN defined \cup {"plot"}
                 ELSE defined
            /\ UNCHANGED output
    /\ UNCHANGED <<isMain, G, sampler, S, solverCalls, num_reads, stdout,
                   subset_1, notS, subset_0, color>>

Next ==
    \/ MainCreateGraph
    \/ SkipMain
    \/ MainSetSampler
    \/ MainSolve
    \/ MainReport
    \/ Partition
    \/ Render

Spec == Init /\ [][Next]_vars

(* ------------- the same steps on an arbitrary graph ------------------- *)

\* solve_problem, the print and the partition code handed any graph over
\* 1..MaxAnyNode in place of the one create_graph returns.
InitAny ==
    /\ InitCommon
    /\ pc = "set_sampler"
    /\ stage = "Built"
    /\ isMain = TRUE
    /\ G \in AnyGraphs
    /\ defined = {"G"}

NextAny ==
    \/ MainSetSampler
    \/ MainSolve
    \/ MainReport
    \/ Partition
    \/ Render

SpecAny == InitAny /\ [][NextAny]_vars

(* ------------------------- derived notions ---------------------------- *)

\* The partition code (subset_1 ... colour loop) has run to its end.
PartitionRan == "notS" \in defined

\* The solve step was entered: set_sampler returned and solve_problem was
\* called.
SolveStepRan == "sampler" \in defined /\ pc \notin {"set_sampler", "solve_problem"}

Selected == {node \in DOMAIN color : color[node] = "red"}

Unselected == {node \in DOMAIN color : color[node] = "blue"}

ReportedSize == stdout[1][2]

Terminal == {"Failed", "Rendered"}

StageSteps ==
    {<<"Start", "Built">>, <<"Built", "Solved">>, <<"Solved", "Partitioned">>,
     <<"Partitioned", "Rendered">>} \cup
    {<<s, "Failed">> : s \in {"Start", "Built", "Solved", "Partitioned"}}

(* ------------------------------ claims -------------------------------- *)

\* C1: for every graph G and every solver answer S (independent or not),
\* once the partition code has run every node of G carries exactly one
\* label, the selected nodes are S \cap G.nodes, the unselected nodes are
\* G.nodes \ S, and the two sets are disjoint and together are G.nodes.
C1_LabelsPartitionNodes ==
    PartitionRan =>
        /\ DOMAIN color = G.nodes
        /\ \A node \in G.nodes : color[node] \in {"red", "blue"}
        /\ Selected = S \cap G.nodes
        /\ Unselected = G.nodes \ S
        /\ Selected \cap Unselected = {}
        /\ Selected \cup Unselected = G.nodes

\* A partitioned graph whose answer is not an independent set and leaves
\* some node unselected.
C1_Witness ==
    /\ PartitionRan
    /\ \E e \in G.edges : Cardinality(e) = 2 /\ e \subseteq S
    /\ Unselected # {}

\* C2 as stated: an answer with a node outside G.nodes makes the partition
\* step fail with NodeOutOfRange, the run is Failed and no node is labelled.
C2_OutOfRangeFails ==
    ("S" \in defined /\ ~(S \subseteq G.nodes) /\ pc \in {"render", "exit"}) =>
        /\ stage = "Failed"
        /\ err = "NodeOutOfRange"
        /\ DOMAIN color = {}

\* C2 amended: an answer with a node outside G.nodes does not make the
\* partition step fail: the node is skipped, the step runs to its end, every
\* node of G is labelled and the selected nodes are S \cap G.nodes.
C2_OutOfRangeIgnored ==
    ("S" \in defined /\ ~(S \subseteq G.nodes) /\ pc \in {"render", "exit"}) =>
        /\ PartitionRan
        /\ err # "NodeOutOfRange"
        /\ DOMAIN color = G.nodes
        /\ Selected = S \cap G.nodes
        /\ subset_1.nodes = S \cap G.nodes
        /\ subset_0.nodes = G.nodes \ S

\* The partition step has just ended on an answer holding a node outside
\* G.nodes.
C2_Witness ==
    /\ "S" \in defined
    /\ ~(S \subseteq G.nodes)
    /\ S \cap G.nodes # {}
    /\ stage = "Partitioned"
    /\ pc = "render"

\* C3 as stated: given an empty graph the solve step fails with InvalidGraph
\* and the solver capability was never contacted: no sampler constructed,
\* no problem submitted.
C3_EmptyGraphRejected ==
    (G.nodes = {} /\ SolveStepRan) =>
        /\ stage = "Failed"
        /\ err = "InvalidGraph"
        /\ solverCalls = 0
        /\ sampler = "None"

\* C3 amended: given an empty graph the solve step makes no check of its
\* own and raises no InvalidGraph: the sampler was constructed before it,
\* and the graph is submitted to the external solver once with sample count
\* 10, as any graph is; the step fails only when that call fails.
C3_EmptyGraphForwarded ==
    (G.nodes = {} /\ SolveStepRan) =>
        /\ sampler # "None"
        /\ solverCalls = 1
        /\ num_reads = 10
        /\ err # "InvalidGraph"
        /\ "S" \in defined \/ (stage = "Failed" /\ err = "SolverUnavailable")

\* The solve step returned an answer for an empty graph.
C3_Witness ==
    /\ G.nodes = {}
    /\ SolveStepRan
    /\ "S" \in defined
    /\ solverCalls = 1

\* C4: a run that has failed has printed nothing, produced no
\* visualization and labelled no node.
C4_FailedRunLeavesNothing ==
    stage = "Failed" =>
        /\ Len(stdout) = 0
        /\ output = "None"
        /\ DOMAIN color = {}

\* C5: the stage moves only along Start/Built -> Solved -> Partitioned ->
\* Rendered, one step at a time, or to Failed; a step that raises ends in
\* Failed; nothing happens after Failed or Rendered.
C5_StageOrder ==
    [][ /\ stage \notin Terminal
        /\ stage' # stage => <<stage, stage'>> \in StageSteps
        /\ (err' # "None") <=> (stage' = "Failed") ]_vars

\* A run that failed after it was partitioned.
C5_Witness ==
    /\ stage = "Failed"
    /\ PartitionRan
    /\ pc = "exit"

\* C6: the solver is invoked at most once, with sample count 10, after the
\* graph was built; a failed invocation aborts the run with no answer, and
\* an answer, once there, is the one answer for the rest of the run.
C6_SingleSolverCall ==
    /\ [](/\ solverCalls <= 1
          /\ solverCalls = 1 => (num_reads = 10 /\ "G" \in defined /\ stage # "Start")
          /\ solverCalls = 0 => "S" \notin defined
          /\ (solverCalls = 1 /\ "S" \notin defined) =>
                (stage = "Failed" /\ pc = "exit" /\ err = "SolverUnavailable"))
    /\ [][ /\ "S" \in defined => (S' = S /\ "S" \in defined')
           /\ solverCalls' # solverCalls => pc = "solve_problem" ]_vars

\* The single invocation failed and the run is over.
C6_Witness ==
    /\ solverCalls = 1
    /\ "S" \notin defined
    /\ stage = "Failed"

\* C7: on the built graph, answer {1,4,7} gives reported size 3, selected
\* {1,4,7} and unselected {2,3,5,6}; the empty answer gives size 0 and all 7
\* nodes unselected; for any answer within the graph's nodes the reported
\* size is the number of selected nodes.
C7_ReportedSizeAndLabels ==
    PartitionRan =>
        /\ S = {1, 4, 7} =>
              (ReportedSize = 3 /\ Selected = {1, 4, 7} /\ Unselected = {2, 3, 5, 6})
        /\ S = {} =>
              (ReportedSize = 0 /\ Selected = {} /\ Unselected = 1..7)
        /\ S \subseteq G.nodes => ReportedSize = Cardinality(Selected)

\* The run partitioned on the answer {1,4,7}.
C7_Witness ==
    /\ PartitionRan
    /\ S = {1, 4, 7}
    /\ Len(stdout) = 2

\* C8: the built graph has nodes 1..7 and exactly the 9 listed edges, none
\* a self-loop, none twice, each with both endpoints among the nodes.
C8_FixedGraph ==
    "G" \in defined =>
        /\ G.nodes = 1..7
        /\ G.edges = {{1, 2}, {1, 3}, {2, 3}, {3, 4}, {3, 5},
                      {4, 5}, {4, 6}, {5, 6}, {6, 7}}
        /\ Cardinality(G.edges) = Len(EdgeList)
        /\ \A e \in G.edges : Cardinality(e) = 2 /\ e \subseteq G.nodes

\* The graph has been built and nothing else has run.
C8_Witness ==
    /\ "G" \in defined
    /\ stage = "Built"
    /\ pc = "set_sampler"

\* C9: once built, the graph's nodes and edges are left as they are by
\* every later step, and the run never goes back to building it.
C9_GraphImmutable ==
    [][ "G" \in defined => (G' = G /\ "G" \in defined' /\ pc' # "main") ]_vars

\* The partition code ran on the built graph.
C9_Witness ==
    /\ "G" \in defined
    /\ PartitionRan
    /\ \E node \in G.nodes : color[node] = "red"

\* C10: a run whose solver call returned a subset of the graph's nodes
\* never enters Failed.
C10_AnsweredRunNeverFails ==
    ("S" \in defined /\ S \subseteq G.nodes) => stage # "Failed"

====
